---- MODULE Spec2Model ----
(***************************************************************************)
(* Model of the Brave Web Search command-line client (src/main.py).        *)
(*                                                                         *)
(* Text is modelled as a sequence of one-character strings, so that        *)
(* whitespace collapsing, truncation, wrapping and index formatting are    *)
(* computed character by character, as the Python code computes them.      *)
(* A fixed literal that the program prints verbatim is a one-element       *)
(* sequence holding the literal.                                           *)
(***************************************************************************)
EXTENDS Integers, Sequences, FiniteSets, TLC

VARIABLES
    pc,         \* position in main(), or in the function under call
    api_key,    \* os.getenv("BRAVE_SEARCH_API_KEY")
    argv,       \* the command line, one raw token per flag
    args,       \* the argparse namespace
    params,     \* the query parameter mapping
    resp,       \* what requests.get met: outcome, status, body
    data,       \* the decoded response document
    requests,   \* number of HTTP GETs issued
    saved,      \* state of the --save file: "none", "partial", "written"
    stdout,     \* prints to standard output, in order
    stderr,     \* prints to the error stream, in order
    exitcode,   \* process exit code, Running while the process runs
    results,    \* the value extract_web_results returned
    snippets,   \* compact_table's local `snippet` of each row, before wrapping
    table,      \* the text compact_table returned
    log         \* order of the externally visible effects of main()

vars == <<pc, api_key, argv, args, params, resp, data, requests, saved,
          stdout, stderr, exitcode, results, snippets, table, log>>

-----------------------------------------------------------------------------
(* Bounds of the model *)

MaxResults == 2     \* longest result list drawn for a response
MaxWords == 2       \* most words in a generated snippet

(* Program constants *)

SnippetMax == 160   \* if len(snippet) > 160
SnippetKeep == 157  \* snippet[:157] + "..."
WrapWidth == 92     \* textwrap.fill(snippet, width=92)
IndexWidth == 2     \* f"{i:>2}"

Running == -1
None == "<None>"
Absent == "<absent>"

-----------------------------------------------------------------------------
(* Text *)

Whitespace == {" ", "\t", "\n"}

IsSpace(c) == c \in Whitespace

Rep(c, n) == [i \in 1..n |-> c]

Take(s, n) == SubSeq(s, 1, IF n < Len(s) THEN n ELSE Len(s))

Drop(s, n) == SubSeq(s, n + 1, Len(s))

IsPrefix(p, s) == Len(p) <= Len(s) /\ SubSeq(s, 1, Len(p)) = p

RECURSIVE Concat(_)
Concat(ss) == IF ss = <<>> THEN <<>> ELSE Head(ss) \o Concat(Tail(ss))

\* sep.join(parts)
RECURSIVE Join(_, _)
Join(sep, parts) ==
    IF parts = <<>> THEN <<>>
    ELSE IF Len(parts) = 1 THEN parts[1]
    ELSE parts[1] \o sep \o Join(sep, Tail(parts))

Min(S) == CHOOSE i \in S : \A j \in S : i <= j

\* length of the run of characters with "is whitespace" = ws at the head of s
RunLen(s, ws) ==
    LET stops == {i \in 1..Len(s) : IsSpace(s[i]) # ws}
    IN  IF stops = {} THEN Len(s) ELSE Min(stops) - 1

\* str.split(): the maximal runs of non-whitespace characters
RECURSIVE Split(_)
Split(s) ==
    LET t == Drop(s, RunLen(s, TRUE))
        n == RunLen(t, FALSE)
    IN  IF t = <<>> THEN <<>> ELSE <<Take(t, n)>> \o Split(Drop(t, n))

-----------------------------------------------------------------------------
(* compact_table: one block per result *)

\* an optional text field of a result item: dict.get(key) is None when absent
NoField == [present |-> FALSE, text |-> <<>>]

Field(t) == [present |-> TRUE, text |-> t]

\* Python's `a or b` on an optional text: a when it is a non-empty string
OrElse(a, b) == IF a.present /\ a.text # <<>> THEN a.text ELSE b

\* title = item.get("title") or item.get("source", {}).get("title") or ""
ItemTitle(item) == OrElse(item.title, OrElse(item.source_title, <<>>))

\* variant: no fallback to the "link" key
ItemUrl_NoLink(item) == OrElse(item.url, <<>>)

\* url = item.get("url") or item.get("link") or ""
ItemUrl(item) == OrElse(item.url, OrElse(item.link, <<>>))

\* snippet = item.get("description") or item.get("snippet") or ""
ItemSnippet(item) == OrElse(item.description, OrElse(item.snippet, <<>>))

\* " ".join(snippet.split())
Collapse(s) == Join(<<" ">>, Split(s))

\* variant: `>=` for `>`, cutting a snippet of exactly 160 characters
Truncate_AtLimit(s) ==
    IF Len(s) >= SnippetMax THEN Take(s, SnippetKeep) \o <<".", ".", ".">> ELSE s

\* if len(snippet) > 160: snippet = snippet[:157] + "..."
Truncate(s) ==
    IF Len(s) > SnippetMax THEN Take(s, SnippetKeep) \o <<".", ".", ".">> ELSE s

\* the local `snippet` handed to textwrap.fill
RowSnippet(item) == Truncate(Collapse(ItemSnippet(item)))

\* textwrap: the text cut into alternating whitespace and word chunks
RECURSIVE Chunks(_)
Chunks(s) ==
    IF s = <<>> THEN <<>>
    ELSE LET n == RunLen(s, IsSpace(Head(s)))
         IN  <<Take(s, n)>> \o Chunks(Drop(s, n))

IsBlank(chunk) == \A i \in 1..Len(chunk) : IsSpace(chunk[i])

\* how many leading chunks fit, greedily, into `room` columns
RECURSIVE FitCount(_, _)
FitCount(chunks, room) ==
    IF chunks = <<>> \/ Len(Head(chunks)) > room THEN 0
    ELSE 1 + FitCount(Tail(chunks), room - Len(Head(chunks)))

\* textwrap.TextWrapper._wrap_chunks with drop_whitespace and break_long_words
RECURSIVE WrapChunks(_, _)
WrapChunks(chunks, lines) ==
    IF chunks = <<>> THEN lines
    ELSE LET c0 == IF IsBlank(Head(chunks)) /\ lines # <<>>
                   THEN Tail(chunks) ELSE chunks
             k == FitCount(c0, WrapWidth)
             fit == SubSeq(c0, 1, k)
             rest == SubSeq(c0, k + 1, Len(c0))
             long == rest # <<>> /\ Len(rest[1]) > WrapWidth
             space_left == WrapWidth - Len(Concat(fit))
             cur1 == IF long THEN Append(fit, Take(rest[1], space_left)) ELSE fit
             rest1 == IF long THEN <<Drop(rest[1], space_left)>> \o Tail(rest)
                      ELSE rest
             cur2 == IF cur1 # <<>> /\ IsBlank(cur1[Len(cur1)])
                     THEN SubSeq(cur1, 1, Len(cur1) - 1) ELSE cur1
         IN  WrapChunks(rest1,
                        IF cur2 # <<>> THEN Append(lines, Concat(cur2)) ELSE lines)

\* textwrap.fill(snippet, width=92): every whitespace character becomes a
\* space, the chunks are wrapped and the lines joined by newlines
fill(s) ==
    LET munged == [i \in 1..Len(s) |-> IF IsSpace(s[i]) THEN " " ELSE s[i]]
    IN  Join(<<"\n">>, WrapChunks(Chunks(munged), <<>>))

DigitChars == <<"0", "1", "2", "3", "4", "5", "6", "7", "8", "9">>

\* str(i) for i >= 0
RECURSIVE Digits(_)
Digits(i) ==
    IF i < 10 THEN <<DigitChars[i + 1]>>
    ELSE Digits(i \div 10) \o <<DigitChars[(i % 10) + 1]>>

\* f"{i:>2}": right-aligned in a field of two characters
FormatIndex(i) ==
    LET d == Digits(i)
    IN  IF Len(d) < IndexWidth THEN Rep(" ", IndexWidth - Len(d)) \o d ELSE d

Indent == <<" ", " ", " ", " ">>

\* f"{i:>2}. {title}\n    {url}\n    {wrapped}"
Row(i, item) ==
    FormatIndex(i) \o <<".", " ">> \o ItemTitle(item) \o <<"\n">>
    \o Indent \o ItemUrl(item) \o <<"\n">>
    \o Indent \o fill(RowSnippet(item))

\* for i, item in enumerate(web_results, start=1): lines.append(...)
TableLines(web_results) ==
    [i \in 1..Len(web_results) |-> Row(i, web_results[i])]

compact_table(web_results) == Join(<<"\n">>, TableLines(web_results))

\* the values the local `snippet` takes, row by row
RowSnippets(web_results) ==
    [i \in 1..Len(web_results) |-> RowSnippet(web_results[i])]

-----------------------------------------------------------------------------
(* Decoded JSON values and extract_web_results *)

\* A JSON value as far as the program looks at it: its kind, and for a number
\* its value, for a string or an object its size, for a list its items.
JVal(k, n, items) == [kind |-> k, n |-> n, items |-> items]

JAbsent == JVal("absent", 0, <<>>)      \* the key is not in the document
JNull == JVal("null", 0, <<>>)
JNum(n) == JVal("num", n, <<>>)
JStr(n) == JVal("str", n, <<>>)         \* a string of n characters
JObj(n) == JVal("obj", n, <<>>)         \* an object of n keys
JList(items) == JVal("list", 0, items)

\* Python truthiness of a decoded value
Truthy(v) ==
    CASE v.kind = "null" -> FALSE
      [] v.kind = "num" -> v.n # 0
      [] v.kind = "str" -> v.n > 0
      [] v.kind = "obj" -> v.n > 0
      [] v.kind = "list" -> v.items # <<>>
      [] OTHER -> FALSE

\* d.get("results", []) or []
GetResults(v) ==
    LET got == IF v.kind = "absent" THEN JList(<<>>) ELSE v
    IN  IF Truthy(got) THEN got ELSE JList(<<>>)

\* A response document: its "web" field (absent, a document, or a value that
\* is not a document) and its top-level "results" field.
Doc(web, res) == [web |-> web, results |-> res]

NoWeb == [kind |-> "absent", results |-> JAbsent]
WebOther == [kind |-> "other", results |-> JAbsent]
WebDoc(res) == [kind |-> "doc", results |-> res]

extract_web_results(resp_json) ==
    IF resp_json.web.kind # "absent" /\ resp_json.web.kind = "doc"
    THEN GetResults(resp_json.web.results)
    ELSE GetResults(resp_json.results)

-----------------------------------------------------------------------------
(* parse_args and build_params *)

IntOf == ("0" :> 0) @@ ("1" :> 1) @@ ("2" :> 2) @@ ("3" :> 3) @@ ("5" :> 5)
         @@ ("10" :> 10)

\* type=int: int(token) raises ValueError on anything but a number
IsInt(tok) == tok \in DOMAIN IntOf

\* type=float, in tenths of a second
FloatOf == ("15.0" :> 150) @@ ("2.5" :> 25)

IsFloat(tok) == tok \in DOMAIN FloatOf

CountDefault == 10          \* --count default
OffsetDefault == 0          \* --offset default
SafesearchDefault == 0      \* --safesearch default
SpellcheckDefault == 1      \* --spellcheck default
ExtraSnippetsDefault == 0   \* --extra_snippets default
SummaryDefault == 0         \* --summary default
TimeoutDefault == 150       \* --timeout default 15.0, in tenths

FreshnessChoices == {"pd", "pw", "pm", "py"}

Given(tok) == tok # Absent

\* an integer flag with choices: absent, or a number among the choices
IntChoiceOk(tok, choices) ==
    ~Given(tok) \/ (IsInt(tok) /\ IntOf[tok] \in choices)

\* variant: --safesearch declared without choices
ParseOk_NoChoices(a) ==
    /\ Given(a.q)
    /\ ~Given(a.count) \/ IsInt(a.count)
    /\ ~Given(a.offset) \/ IsInt(a.offset)
    /\ ~Given(a.safesearch) \/ IsInt(a.safesearch)
    /\ ~Given(a.freshness) \/ a.freshness \in FreshnessChoices
    /\ IntChoiceOk(a.spellcheck, {0, 1})
    /\ IntChoiceOk(a.extra_snippets, {0, 1})
    /\ IntChoiceOk(a.summary, {0, 1})
    /\ ~Given(a.timeout) \/ IsFloat(a.timeout)

\* the command line parses: --q is there and every given value converts and
\* is among its flag's choices
ParseOk(a) ==
    /\ Given(a.q)
    /\ ~Given(a.count) \/ IsInt(a.count)
    /\ ~Given(a.offset) \/ IsInt(a.offset)
    /\ IntChoiceOk(a.safesearch, {0, 1, 2})
    /\ ~Given(a.freshness) \/ a.freshness \in FreshnessChoices
    /\ IntChoiceOk(a.spellcheck, {0, 1})
    /\ IntChoiceOk(a.extra_snippets, {0, 1})
    /\ IntChoiceOk(a.summary, {0, 1})
    /\ ~Given(a.timeout) \/ IsFloat(a.timeout)

IntArg(tok, default) == IF Given(tok) THEN IntOf[tok] ELSE default

StrArg(tok, default) == IF Given(tok) THEN tok ELSE default

\* the namespace parse_args returns for a command line that parses
parse_args(a) ==
    [q |-> a.q,
     count |-> IntArg(a.count, CountDefault),
     offset |-> IntArg(a.offset, OffsetDefault),
     country |-> StrArg(a.country, "us"),
     lang |-> StrArg(a.lang, "en"),
     safesearch |-> IntArg(a.safesearch, SafesearchDefault),
     freshness |-> StrArg(a.freshness, None),
     spellcheck |-> IntArg(a.spellcheck, SpellcheckDefault),
     extra_snippets |-> IntArg(a.extra_snippets, ExtraSnippetsDefault),
     summary |-> IntArg(a.summary, SummaryDefault),
     json |-> a.json,
     table |-> a.table,
     timeout |-> IF Given(a.timeout) THEN FloatOf[a.timeout] ELSE TimeoutDefault,
     save |-> StrArg(a.save, None)]

NoArgs ==
    [q |-> None, count |-> 0, offset |-> 0, country |-> None, lang |-> None,
     safesearch |-> 0, freshness |-> None, spellcheck |-> 0,
     extra_snippets |-> 0, summary |-> 0, json |-> FALSE, table |-> FALSE,
     timeout |-> 0, save |-> None]

NoParams == [k \in {} |-> None]

\* variant: the levels numbered from one
SAFES_SEARCH_MAP_FromOne == (1 :> "off") @@ (2 :> "moderate") @@ (3 :> "strict")

SAFES_SEARCH_MAP == (0 :> "off") @@ (1 :> "moderate") @@ (2 :> "strict")

\* SAFES_SEARCH_MAP.get(level, 'off')
SafesearchToken(level) ==
    IF level \in DOMAIN SAFES_SEARCH_MAP THEN SAFES_SEARCH_MAP[level] ELSE "off"

\* Python truthiness of an optional string option
StrTruthy(v) == v # None /\ v # ""

\* variant: the three optional keys set unconditionally
ParamKeys_Always(a) ==
    {"q", "count", "offset", "country", "search_lang", "safesearch", "spellcheck",
     "freshness", "extra_snippets", "summary"}

\* the keys of the mapping: the seven of the literal, and one more for each of
\* `if args.freshness`, `if args.extra_snippets`, `if args.summary`
ParamKeys(a) ==
    {"q", "count", "offset", "country", "search_lang", "safesearch", "spellcheck"}
    \cup (IF StrTruthy(a.freshness) THEN {"freshness"} ELSE {})
    \cup (IF a.extra_snippets # 0 THEN {"extra_snippets"} ELSE {})
    \cup (IF a.summary # 0 THEN {"summary"} ELSE {})

build_params(a) ==
    [k \in ParamKeys(a) |->
        CASE k = "q" -> a.q
          [] k = "count" -> a.count
          [] k = "offset" -> a.offset
          [] k = "country" -> a.country
          [] k = "search_lang" -> a.lang
          [] k = "safesearch" -> SafesearchToken(a.safesearch)
          [] k = "spellcheck" -> a.spellcheck
          [] k = "freshness" -> a.freshness
          [] k = "extra_snippets" -> 1
          [] k = "summary" -> 1]

-----------------------------------------------------------------------------
(* Inputs *)

\* BRAVE_SEARCH_API_KEY: unset, set to the empty string, set to a token
Keys == {None, "", "key"}

\* one raw token per flag, in the order parse_args declares the flags
CmdLine(q, c, o, co, l, ss, f, sp, ex, su, j, t, tm, sv) ==
    [q |-> q, count |-> c, offset |-> o, country |-> co, lang |-> l,
     safesearch |-> ss, freshness |-> f, spellcheck |-> sp,
     extra_snippets |-> ex, summary |-> su, json |-> j, table |-> t,
     timeout |-> tm, save |-> sv]

\* command lines for main(): the flags its control flow depends on, one flag
\* (--safesearch) that may carry a value outside its choices
MainArgvs ==
    {CmdLine(q, Absent, Absent, Absent, Absent, ss, Absent, Absent, Absent,
             Absent, j, t, Absent, sv) :
        q \in {Absent, "test"}, ss \in {Absent, "1", "3"},
        j \in BOOLEAN, t \in BOOLEAN, sv \in {Absent, "out.json"}}

\* command lines for the request builder: every request option, with values
\* inside and outside the choices and tokens that do not convert
BuilderArgvs ==
    {CmdLine(q, c, Absent, co, l, ss, f, sp, ex, su, FALSE, FALSE, Absent, Absent) :
        q \in {Absent, "test"}, c \in {Absent, "5", "abc"},
        co \in {Absent, "de"}, l \in {Absent, "fr"},
        ss \in {Absent, "0", "1", "2", "3"}, f \in {Absent, "pd", "py", "xx"},
        sp \in {Absent, "0", "2"}, ex \in {Absent, "0", "1"},
        su \in {Absent, "1"}}
    \cup
    {CmdLine(q, Absent, o, Absent, Absent, Absent, f, sp, ex, su, FALSE, FALSE,
             tm, Absent) :
        q \in {"test", ""}, o \in {Absent, "10", "x"}, f \in {"pw", "pm"},
        sp \in {Absent, "1", "yes"}, ex \in {Absent, "2"}, su \in {"0", "3"},
        tm \in {Absent, "2.5", "abc"}}

Word(c, n) == Rep(c, n)

Str1(c) == <<c>>

NoItem ==
    [title |-> NoField, source_title |-> NoField, url |-> NoField,
     link |-> NoField, description |-> NoField, snippet |-> NoField]

HttpX == <<"h", "t", "t", "p", ":", "/", "/", "x">>

\* result items as the API sends them: optional text fields
Items ==
    { \* {"title": "T", "url": "http://x", "description": "d " + "x"*200}
      [NoItem EXCEPT !.title = Field(Str1("T")), !.url = Field(HttpX),
                     !.description = Field(<<"d", " ">> \o Word("x", 200))],
      \* only the fallback keys: source.title, link, snippet
      [NoItem EXCEPT !.source_title = Field(Str1("S")), !.link = Field(Str1("l")),
                     !.snippet = Field(<<" ", "a", "\t", "\n", "b", " ">>)],
      \* empty strings in the first keys, text in the fallback keys
      [NoItem EXCEPT !.title = Field(<<>>), !.source_title = Field(Str1("S")),
                     !.url = Field(<<>>), !.link = Field(Str1("l")),
                     !.description = Field(<<>>), !.snippet = Field(Str1("s"))],
      \* both keys present: the first wins
      [NoItem EXCEPT !.title = Field(Str1("T")), !.source_title = Field(Str1("S")),
                     !.url = Field(Str1("u")), !.link = Field(Str1("l")),
                     !.description = Field(Word("a", 47) \o <<" ">> \o Word("b", 47)
                                           \o <<" ">> \o Word("c", 47)),
                     !.snippet = Field(Str1("s"))],
      \* no key at all
      NoItem }

RECURSIVE SeqsUpTo(_, _)
SeqsUpTo(S, n) ==
    IF n = 0 THEN {<<>>}
    ELSE LET shorter == SeqsUpTo(S, n - 1)
         IN  shorter \cup {Append(l, x) : l \in shorter, x \in S}

ItemLists == SeqsUpTo(Items, MaxResults)

\* the "results" field of the response shapes the API produces: missing, null,
\* or a list of result items
ApiResults == {JAbsent, JNull} \cup {JList(l) : l \in ItemLists}

\* response documents of the API: the results at the top level, or under "web"
ApiDocs ==
    {Doc(NoWeb, r) : r \in ApiResults} \cup {Doc(WebDoc(r), JAbsent) : r \in ApiResults}
    \cup {Doc(WebDoc(JAbsent), JList(<<NoItem>>)), Doc(WebOther, JList(<<NoItem>>))}

\* any value a JSON document can hold under a key
AnyValues ==
    {JAbsent, JNull, JNum(0), JNum(7), JStr(0), JStr(3), JObj(0), JObj(2)}
    \cup {JList(l) : l \in SeqsUpTo({NoItem}, MaxResults)}

\* any response document
AnyDocs ==
    {Doc(w, r) : w \in {NoWeb, WebOther} \cup {WebDoc(x) : x \in AnyValues},
                 r \in AnyValues}

WordLens == {1, 79, 80, 157, 200}

WordChars == <<"a", "b", "c", "d">>

Gaps == {<<" ">>, <<" ", "\t", "\n">>}

\* snippet texts: words of chosen lengths between runs of whitespace
Snippets ==
    {lead \o Join(gap, [i \in 1..Len(ws) |-> Word(WordChars[i], ws[i])]) \o trail :
        lead \in {<<>>, <<"\n", " ">>}, trail \in {<<>>, <<"\t">>}, gap \in Gaps,
        ws \in SeqsUpTo(WordLens, MaxWords)}

\* result lists for compact_table
TableInputs ==
    ItemLists \cup {<<[NoItem EXCEPT !.description = Field(s)]>> : s \in Snippets}
              \cup {<<[NoItem EXCEPT !.snippet = Field(s)]>> : s \in Snippets}

Statuses == {200, 204, 304, 400, 401, 404, 429, 500, 503}

NoResp == [outcome |-> "none", status |-> 0, body |-> "none"]

-----------------------------------------------------------------------------
(* main() *)

NoDoc == Doc(NoWeb, JAbsent)

Begin(at, keys, argvs, docs, ress) ==
    /\ pc = at
    /\ api_key \in keys
    /\ argv \in argvs
    /\ args = NoArgs
    /\ params = NoParams
    /\ resp = NoResp
    /\ data \in docs
    /\ requests = 0
    /\ saved = "none"
    /\ stdout = <<>>
    /\ stderr = <<>>
    /\ exitcode = Running
    /\ results \in ress
    /\ snippets = <<>>
    /\ table = <<>>
    /\ log = <<>>

Init == Begin("start", Keys, MainArgvs, {NoDoc}, {JNull})

\* sys.exit(code), or the interpreter ending the process
Exit(code) ==
    /\ exitcode' = code
    /\ pc' = "done"

\* variant: `if api_key is None`, which lets the empty string through
KeyMissing_NoneOnly(k) == k = None

\* if not api_key
KeyMissing(k) == k = None \/ k = ""

\* api_key = os.getenv(...); if not api_key: print(...); sys.exit(1)
CheckKey ==
    /\ pc = "start"
    /\ IF KeyMissing(api_key)
       THEN /\ stderr' = Append(stderr, "Error: BRAVE_SEARCH_API_KEY is not set")
            /\ Exit(1)
       ELSE /\ pc' = "parse"
            /\ UNCHANGED <<stderr, exitcode>>
    /\ UNCHANGED <<api_key, argv, args, params, resp, data, requests, saved,
                   stdout, results, snippets, table, log>>

\* args = parse_args(): argparse prints the usage and exits with status 2
ParseArgs ==
    /\ pc = "parse"
    /\ IF ParseOk(argv)
       THEN /\ args' = parse_args(argv)
            /\ pc' = "build"
            /\ UNCHANGED <<stderr, exitcode>>
       ELSE /\ stderr' = Append(stderr, "usage")
            /\ Exit(2)
            /\ UNCHANGED args
    /\ UNCHANGED <<api_key, argv, params, resp, data, requests, saved, stdout,
                   results, snippets, table, log>>

\* params = build_params(args)
BuildParams ==
    /\ pc = "build"
    /\ params' = build_params(args)
    /\ pc' = "request"
    /\ UNCHANGED <<api_key, argv, args, resp, data, requests, saved, stdout,
                   stderr, exitcode, results, snippets, table, log>>

\* variant: only the 5xx statuses raise
raise_for_status_ServerOnly(status) == status >= 500

\* r.raise_for_status(): HTTPError for a 4xx or 5xx status
raise_for_status(status) == status >= 400

\* requests.get raises (connection, DNS, timeout): except Exception, exit 3
HttpTransportFailure ==
    /\ pc = "request"
    /\ resp' = [outcome |-> "transport", status |-> 0, body |-> "none"]
    /\ requests' = requests + 1
    /\ log' = Append(log, "get")
    /\ stderr' = Append(stderr, "Request failed")
    /\ Exit(3)
    /\ UNCHANGED <<api_key, argv, args, params, data, saved, stdout, results,
                   snippets, table>>

\* a response whose status raise_for_status rejects: except HTTPError, exit 2
HttpErrorStatus ==
    /\ pc = "request"
    /\ \E status \in Statuses, body \in {"json", "garbage"} :
        /\ raise_for_status(status)
        /\ resp' = [outcome |-> "response", status |-> status, body |-> body]
    /\ requests' = requests + 1
    /\ log' = Append(log, "get")
    /\ stderr' = Append(stderr, "HTTP error")
    /\ Exit(2)
    /\ UNCHANGED <<api_key, argv, args, params, data, saved, stdout, results,
                   snippets, table>>

\* a response that passes raise_for_status but whose body r.json() cannot
\* decode: except Exception, exit 3
HttpBadJson ==
    /\ pc = "request"
    /\ \E status \in Statuses :
        /\ ~raise_for_status(status)
        /\ resp' = [outcome |-> "response", status |-> status, body |-> "garbage"]
    /\ requests' = requests + 1
    /\ log' = Append(log, "get")
    /\ stderr' = Append(stderr, "Request failed")
    /\ Exit(3)
    /\ UNCHANGED <<api_key, argv, args, params, data, saved, stdout, results,
                   snippets, table>>

\* a response that passes raise_for_status and decodes: data = r.json()
HttpSuccess ==
    /\ pc = "request"
    /\ \E status \in Statuses, doc \in ApiDocs :
        /\ ~raise_for_status(status)
        /\ resp' = [outcome |-> "response", status |-> status, body |-> "json"]
        /\ data' = doc
    /\ requests' = requests + 1
    /\ log' = Append(log, "get")
    /\ pc' = "save"
    /\ UNCHANGED <<api_key, argv, args, params, saved, stdout, stderr, exitcode,
                   results, snippets, table>>

\* variant: the file written only when the JSON block is printed
SaveWanted_JsonOnly(a) == StrTruthy(a.save) /\ (a.json \/ ~a.table)

\* if args.save
SaveWanted(a) == StrTruthy(a.save)

\* if args.save: with open(args.save, "w") as f: json.dump(data, f, ...)
Save ==
    /\ pc = "save"
    /\ IF SaveWanted(args)
       THEN /\ saved' = "written"
            /\ log' = Append(log, "write")
       ELSE UNCHANGED <<saved, log>>
    /\ pc' = "print"
    /\ UNCHANGED <<api_key, argv, args, params, resp, data, requests, stdout,
                   stderr, exitcode, results, snippets, table>>

\* open() or json.dump raises: nothing catches it, the interpreter prints the
\* traceback and exits with status 1; the file is missing or cut short
SaveFail ==
    /\ pc = "save"
    /\ SaveWanted(args)
    /\ saved' \in {"none", "partial"}
    /\ stderr' = Append(stderr, "Traceback")
    /\ Exit(1)
    /\ UNCHANGED <<api_key, argv, args, params, resp, data, requests, stdout,
                   results, snippets, table, log>>

Printed(kind, text) == [kind |-> kind, text |-> text]

\* variant: `if not args.table`, the table switch silencing the JSON block
JsonWanted_TableWins(a) == ~a.table

\* if args.json or not args.table
JsonWanted(a) == a.json \/ ~a.table

\* the JSON block, and the separator after it when the table follows
PrintJson ==
    /\ pc = "print"
    /\ IF JsonWanted(args)
       THEN /\ stdout' = stdout \o <<Printed("json", <<"json.dumps(data)">>)>>
                         \o (IF args.table
                             THEN <<Printed("sep", <<"\n---\n">>)>> ELSE <<>>)
            /\ log' = Append(log, "print")
       ELSE UNCHANGED <<stdout, log>>
    /\ pc' = "table"
    /\ UNCHANGED <<api_key, argv, args, params, resp, data, requests, saved,
                   stderr, exitcode, results, snippets, table>>

\* if args.table: the notice, or the table; then main returns
PrintTable ==
    /\ pc = "table"
    /\ IF args.table
       THEN LET res == extract_web_results(data)
            IN  /\ results' = res
                /\ log' = Append(log, "print")
                /\ IF ~Truthy(res)
                   THEN /\ stdout' = Append(stdout,
                               Printed("notice", <<"No web results in response">>))
                        /\ UNCHANGED <<snippets, table>>
                   ELSE /\ table' = compact_table(res.items)
                        /\ snippets' = RowSnippets(res.items)
                        /\ stdout' = Append(stdout, Printed("table", table'))
       ELSE UNCHANGED <<results, stdout, snippets, table, log>>
    /\ Exit(0)
    /\ UNCHANGED <<api_key, argv, args, params, resp, data, requests, saved,
                   stderr>>

Next ==
    \/ CheckKey
    \/ ParseArgs
    \/ BuildParams
    \/ HttpTransportFailure
    \/ HttpErrorStatus
    \/ HttpBadJson
    \/ HttpSuccess
    \/ Save
    \/ SaveFail
    \/ PrintJson
    \/ PrintTable

Spec == Init /\ [][Next]_vars

-----------------------------------------------------------------------------
(* The request builder, from the command line to the parameter mapping *)

InitBuilder == Begin("parse", {"key"}, BuilderArgvs, {NoDoc}, {JNull})

NextBuilder ==
    \/ ParseArgs
    \/ BuildParams

SpecBuilder == InitBuilder /\ [][NextBuilder]_vars

-----------------------------------------------------------------------------
(* extract_web_results called on any response document *)

TableArgv ==
    CmdLine("test", Absent, Absent, Absent, Absent, Absent, Absent, Absent,
            Absent, Absent, FALSE, TRUE, Absent, Absent)

InitExtract == Begin("extract_web_results", {"key"}, {TableArgv}, AnyDocs, {JNull})

ExtractCall ==
    /\ pc = "extract_web_results"
    /\ results' = extract_web_results(data)
    /\ pc' = "returned"
    /\ UNCHANGED <<api_key, argv, args, params, resp, data, requests, saved,
                   stdout, stderr, exitcode, snippets, table, log>>

NextExtract == ExtractCall

SpecExtract == InitExtract /\ [][NextExtract]_vars

-----------------------------------------------------------------------------
(* compact_table called on a list of result items *)

InitTable ==
    Begin("compact_table", {"key"}, {TableArgv}, {NoDoc},
          {JList(l) : l \in TableInputs})

CompactTableCall ==
    /\ pc = "compact_table"
    /\ table' = compact_table(results.items)
    /\ snippets' = RowSnippets(results.items)
    /\ pc' = "returned"
    /\ UNCHANGED <<api_key, argv, args, params, resp, data, requests, saved,
                   stdout, stderr, exitcode, results, log>>

NextTable == CompactTableCall

SpecTable == InitTable /\ [][NextTable]_vars

-----------------------------------------------------------------------------
(* Properties *)

Done == pc = "done"

CredentialMissing == api_key = None \/ api_key = ""

\* the command line has --q and a --safesearch value among 0, 1, 2
CmdLineValid ==
    /\ argv.q # Absent
    /\ argv.safesearch \in {Absent, "0", "1", "2"}

HttpError == resp.outcome = "response" /\ resp.status >= 400

TransportFailure ==
    \/ resp.outcome = "transport"
    \/ resp.outcome = "response" /\ resp.status < 400 /\ resp.body = "garbage"

Success == resp.outcome = "response" /\ resp.status < 400 /\ resp.body = "json"

Kinds(out) == [i \in 1..Len(out) |-> out[i].kind]

\* C1: with BRAVE_SEARCH_API_KEY unset or empty, whatever the command line,
\* the run never parses the arguments, never issues a request, and ends with
\* exit code 1 (never the usage-error code).
C1_MissingKeyExitsOne ==
    CredentialMissing =>
        /\ pc \in {"start", "done"}
        /\ args = NoArgs
        /\ requests = 0
        /\ resp = NoResp
        /\ exitcode \in {Running, 1}
        /\ Done => exitcode = 1 /\ stdout = <<>>

\* an empty key with a command line that lacks --q and has an invalid
\* --safesearch has ended with exit code 1
C1_Witness ==
    /\ Done
    /\ api_key = ""
    /\ argv.q = Absent
    /\ argv.safesearch = "3"
    /\ exitcode = 1

\* C2, as stated: once the HTTP call is reached the exit code is 2 for a status
\* >= 400, 3 for any other failure of the request, 0 for a decoded response.
C2_ExitCodeByOutcome ==
    Done /\ requests > 0 =>
        /\ HttpError => exitcode = 2
        /\ TransportFailure => exitcode = 3
        /\ Success => exitcode = 0

\* C2, amended: exit code 2 for a status >= 400 and 3 for any other failure of
\* the request, never the other way round; a decoded response gives 0 when the
\* run gets through the save step, and 1 when writing the --save file raises.
C2_ExitCodeByOutcomeAndSave ==
    Done /\ requests > 0 =>
        /\ HttpError \/ TransportFailure \/ Success
        /\ HttpError => exitcode = 2
        /\ TransportFailure => exitcode = 3
        /\ Success =>
            IF argv.save # Absent /\ saved # "written"
            THEN exitcode = 1
            ELSE exitcode = 0

\* a decoded 200 response whose --save write failed has ended with exit code 1
C2_Witness ==
    /\ Done
    /\ Success
    /\ resp.status = 200
    /\ argv.save # Absent
    /\ saved = "none"
    /\ exitcode = 1

\* C3: what a run that ends normally has printed, by the two switches: --table
\* alone, the table section only; neither or --json alone, the JSON block only;
\* both, the JSON block, the separator, the table section, in this order. The
\* separator is printed exactly when both switches are set. The table section
\* is the table or, for an empty result list, the notice.
C3_OutputModes ==
    /\ (\E i \in 1..Len(stdout) : stdout[i].kind = "sep") => argv.json /\ argv.table
    /\ Done /\ exitcode = 0 =>
        \E section \in {"table", "notice"} :
            Kinds(stdout) =
                IF argv.json /\ argv.table THEN <<"json", "sep", section>>
                ELSE IF argv.table THEN <<section>>
                ELSE <<"json">>

\* both switches set: JSON block, separator and a table were printed
C3_Witness ==
    /\ Done
    /\ argv.json /\ argv.table
    /\ Kinds(stdout) = <<"json", "sep", "table">>

\* C4: the mapping has the key freshness exactly when a freshness token was
\* given, extra_snippets exactly when --extra_snippets is 1 and summary exactly
\* when --summary is 1; a key that is there carries the token, or 1.
C4_OptionalKeys ==
    pc = "request" =>
        /\ "freshness" \in DOMAIN params <=> argv.freshness # Absent
        /\ "extra_snippets" \in DOMAIN params <=> argv.extra_snippets = "1"
        /\ "summary" \in DOMAIN params <=> argv.summary = "1"
        /\ "freshness" \in DOMAIN params => params["freshness"] = argv.freshness
        /\ "extra_snippets" \in DOMAIN params => params["extra_snippets"] = 1
        /\ "summary" \in DOMAIN params => params["summary"] = 1

\* a mapping built with a freshness token and summary 1, and --extra_snippets 0
C4_Witness ==
    /\ pc = "request"
    /\ argv.freshness = "pd"
    /\ argv.extra_snippets = "0"
    /\ argv.summary = "1"
    /\ DOMAIN params \cap {"freshness", "extra_snippets", "summary"}
           = {"freshness", "summary"}

LevelToken(level) ==
    CASE level = 0 -> "off"
      [] level = 1 -> "moderate"
      [] level = 2 -> "strict"
      [] OTHER -> "no token"

\* C5: the mapping always has the seven keys q, count, offset, country,
\* search_lang, safesearch, spellcheck; q, count, offset, country and spellcheck
\* carry the option values, search_lang the --lang value, safesearch the token
\* off, moderate, strict of level 0, 1, 2; no other level gets to the mapping.
C5_FixedKeys ==
    pc = "request" =>
        /\ {"q", "count", "offset", "country", "search_lang", "safesearch",
            "spellcheck"} \subseteq DOMAIN params
        /\ params["q"] = args.q /\ args.q = argv.q
        /\ params["count"] = args.count
        /\ params["offset"] = args.offset
        /\ params["country"] = args.country
        /\ params["spellcheck"] = args.spellcheck
        /\ params["search_lang"] = args.lang
        /\ argv.lang # Absent => params["search_lang"] = argv.lang
        /\ args.safesearch \in {0, 1, 2}
        /\ argv.safesearch \in {Absent, "0", "1", "2"}
        /\ params["safesearch"] = LevelToken(args.safesearch)

\* a mapping built from --safesearch 2 --lang fr --count 5
C5_Witness ==
    /\ pc = "request"
    /\ argv.safesearch = "2" /\ params["safesearch"] = "strict"
    /\ argv.lang = "fr" /\ params["search_lang"] = "fr"
    /\ argv.count = "5" /\ params["count"] = 5

\* C10: at most one GET, and only with a credential and a command line that
\* parses; a run that ends in a failure (missing credential, usage error, HTTP
\* error response, transport failure) has issued no second request, printed
\* nothing to standard output and exits with a non-zero code; once the exit
\* code is set the run is over.
C10_OneRequestFailuresTerminal ==
    /\ requests <= 1
    /\ requests = 1 => ~CredentialMissing /\ CmdLineValid
    /\ ~CredentialMissing /\ ~CmdLineValid => requests = 0
    /\ exitcode # Running => Done
    /\ Done /\ (CredentialMissing \/ ~CmdLineValid \/ HttpError \/ TransportFailure) =>
        /\ stdout = <<>>
        /\ exitcode \in {1, 2, 3}
        /\ stderr # <<>>

\* a usage error with a credential set: exit code 2 and no request
C10_Witness ==
    /\ Done
    /\ api_key = "key"
    /\ argv.safesearch = "3"
    /\ exitcode = 2
    /\ requests = 0

ClaimedDefault(v) == IF v.kind = "list" THEN v ELSE JList(<<>>)

\* C6: the value extract_web_results returns is the "results" field of the
\* inner document when "web" is a document (the top-level field ignored), the
\* top-level "results" field otherwise, and in both cases the empty list when
\* that field is absent or is not a list: always a list.
C6_ExtractAlwaysList ==
    pc = "returned" =>
        /\ results.kind = "list"
        /\ results = IF data.web.kind = "doc"
                     THEN ClaimedDefault(data.web.results)
                     ELSE ClaimedDefault(data.results)

\* C7, as stated: the file is written exactly when a save path was given and
\* the response decoded; the write comes after the response and before any
\* print; a run that exits with code 1, 2 or 3 has written no file.
C7_SavedIffSuccess ==
    /\ Done => (saved = "written" <=> argv.save # Absent /\ Success)
    /\ saved = "written" => SubSeq(log, 1, 2) = <<"get", "write">>
    /\ Done /\ exitcode \in {1, 2, 3} => saved = "none"

\* C7, amended: a file appears only if a save path was given and the response
\* decoded; the write comes right after the response and before any print, for
\* every combination of the switches, so a run that printed or ended normally
\* with a save path has written the file; the file is written unless the write
\* raises, and then the run ends with exit code 1, prints nothing and leaves no
\* file or a partial one; a missing credential, a usage error and exit codes 2
\* and 3 leave no file.
C7_SavedOnlyOnSuccess ==
    /\ saved # "none" => argv.save # Absent /\ Success
    /\ saved = "written" => SubSeq(log, 1, 2) = <<"get", "write">>
    /\ stdout # <<>> /\ argv.save # Absent => saved = "written"
    /\ Done /\ exitcode = 0 /\ argv.save # Absent => saved = "written"
    /\ Done /\ Success /\ argv.save # Absent /\ saved # "written" =>
        exitcode = 1 /\ stdout = <<>>
    /\ Done /\ (exitcode \in {2, 3} \/ CredentialMissing) => saved = "none"

\* --save with --table alone: the file was written and the table printed
C7_Witness ==
    /\ Done
    /\ exitcode = 0
    /\ argv.table /\ ~argv.json
    /\ saved = "written"
    /\ log = <<"get", "write", "print">>

\* The text with every run of whitespace turned into one space and the
\* whitespace at both ends removed, read off the positions of the text: a
\* character stays if it is no whitespace, or if it is the first whitespace
\* after a word that is not the last word.
Collapsed(raw) ==
    LET n == Len(raw)
        inword == {i \in 1..n : ~IsSpace(raw[i])}
        last == IF inword = {} THEN 0
                ELSE CHOOSE i \in inword : \A j \in (i + 1)..n : IsSpace(raw[j])
        stays(p) ==
            \/ ~IsSpace(p[2])
            \/ p[1] > 1 /\ p[1] < last /\ ~IsSpace(raw[p[1] - 1])
        kept == SelectSeq([i \in 1..n |-> <<i, raw[i]>>], stays)
    IN  [k \in 1..Len(kept) |-> IF IsSpace(kept[k][2]) THEN " " ELSE kept[k][2]]

FirstText(a, b) ==
    IF a.present /\ Len(a.text) > 0 THEN a.text
    ELSE IF b.present /\ Len(b.text) > 0 THEN b.text
    ELSE <<>>

\* C8: the snippet of every row, before wrapping, is the snippet text with the
\* runs of whitespace collapsed to single spaces and the ends stripped, cut to
\* its first 157 characters plus "..." if the collapsed text is longer than 160
\* characters and left as it is otherwise; it never exceeds 160 characters.
C8_SnippetCollapsedAndCut ==
    pc = "returned" =>
        /\ Len(snippets) = Len(results.items)
        /\ \A i \in 1..Len(snippets) :
            LET item == results.items[i]
                c == Collapsed(FirstText(item.description, item.snippet))
            IN  /\ Len(snippets[i]) <= 160
                /\ Len(c) <= 160 => snippets[i] = c
                /\ Len(c) > 160 =>
                    snippets[i] = SubSeq(c, 1, 157) \o <<".", ".", ".">>

\* a snippet of 200 characters without whitespace came out as its first 157
\* characters and the marker
C8_Witness ==
    /\ pc = "returned"
    /\ Len(results.items) = 1
    /\ results.items[1].description = Field(Word("a", 200))
    /\ snippets[1] = Word("a", 157) \o <<".", ".", ".">>

\* the index right-aligned in two columns
IndexInTwoColumns(k) ==
    IF k < 10 THEN <<" ">> \o Digits(k) ELSE Digits(k)

\* the blocks of the table, the index of block k padded to two columns or not
Blocks(items, padded) ==
    [k \in 1..Len(items) |->
        (IF padded THEN IndexInTwoColumns(k) ELSE Digits(k))
        \o <<".", " ">> \o FirstText(items[k].title, items[k].source_title)
        \o <<"\n">> \o Indent \o FirstText(items[k].url, items[k].link)
        \o <<"\n">> \o Indent \o fill(snippets[k])]

TableSection(padded) ==
    Done /\ exitcode = 0 /\ argv.table =>
        LET last == stdout[Len(stdout)]
            items == results.items
        IN  IF items = <<>>
            THEN last.kind = "notice" /\ \A i \in 1..Len(stdout) : stdout[i].kind # "table"
            ELSE /\ last.kind = "table"
                 /\ \A i \in 1..Len(stdout) : stdout[i].kind # "notice"
                 /\ \A k \in 1..Len(items) :
                     snippets[k] = Truncate(Collapse(FirstText(items[k].description,
                                                               items[k].snippet)))
                 /\ last.text = Join(<<"\n">>, Blocks(items, padded))

\* C9, as stated: with --table, an empty result list prints the notice and no
\* block; otherwise one block per result, in order, block k starting with the
\* index k, a period and the title ("1. T"), then the url line (url, else link,
\* else empty), then the snippet (description, else snippet).
C9_TableBlocks == TableSection(FALSE)

\* C9, amended: as stated, except that the index is right-aligned in a field of
\* two characters, so that block k starts with a space before a one-digit index
\* (" 1. T"), and that the snippet part is the wrapped snippet, which may run
\* over more than one line.
C9_TableBlocksPadded == TableSection(TRUE)

\* a table of two results was printed, the first titled T
C9_Witness ==
    /\ Done
    /\ argv.table
    /\ results.kind = "list" /\ Len(results.items) = 2
    /\ results.items[1].title = Field(Str1("T"))
    /\ stdout[Len(stdout)].kind = "table"
    /\ IsPrefix(<<" ", "1", ".", " ", "T", "\n">>, table)

====
